---- MODULE Spec2Model ----
(***************************************************************************)
(* Model of the qwen35-rp transform handler (src/transform.go): request    *)
(* validation and rewriting, dispatch to the single backend, and the       *)
(* buffered response rectification (fixVLLMResponse, fixModelName).        *)
(*                                                                         *)
(* JSON values are tagged records: [t |-> "null"], [t |-> "bool", v],      *)
(* [t |-> "num", v] (v in hundredths: 0.95 is 95, 20 is 2000) or           *)
(* [t |-> "num", lit] (the literal of an integer beyond 2^53),             *)
(* [t |-> "str", v], [t |-> "arr", v] (a sequence), [t |-> "obj", v]       *)
(* (a function from key strings to JSON values).                           *)
(* A byte string holding JSON is [layout, json]: json.Marshal always       *)
(* produces the layout "gomarshal" (sorted keys, no white space), whereas  *)
(* bytes that come from a peer have the peer's own layout.  Two byte       *)
(* strings are equal iff both fields are equal, so a body that was         *)
(* unmarshalled and marshalled again differs from peer-formatted bytes.    *)
(***************************************************************************)
EXTENDS Integers, Sequences, FiniteSets, TLC

VARIABLES
    enforceSamplingParams, \* configuration flag handed to transform()
    modifiedRequests,      \* process-wide atomic counter
    pc,                    \* position of the handler: "idle", "sent",
                           \* "responded", "streaming", "done"
    request,               \* the inbound request being handled
    think, stream,         \* the handler's locals of the same names
    virtualModel,          \* the handler's local virtualModel
    outreq,                \* request bodies in flight to the backend
    backendCalls,          \* number of httpCli.Do calls made for this request
    outResp,               \* what httpCli.Do returned
    doErr,                 \* the error httpCli.Do returned, "" when none
    fixedBody,             \* responseBody after fixVLLMResponse (line 194)
    client,                \* status and buffered body the client received
    pending,               \* streamed body: what the backend has yet to deliver
    received,              \* streamed body: what the reads have returned
    lastRead,              \* the err of the latest backendBody.Read, "" before
    buf,                   \* streamResponse's accumulation buffer
    nread,                 \* number of tokens read from the backend stream
    written,               \* the successful w.Write calls of streamResponse
    clientOpen,            \* FALSE once the client is gone: writes fail
    streamErr,             \* what streamResponse returned
    bodyClosed,            \* the deferred outResp.Body.Close() has run
    header,                \* w.Header(): the header values the client is sent
    handlers               \* the locals of the handlers that run concurrently

vars == <<enforceSamplingParams, modifiedRequests, pc, request, think, stream,
          virtualModel, outreq, backendCalls, outResp, doErr, fixedBody, client,
          pending, received, lastRead,
          buf, nread, written, clientOpen, streamErr, bodyClosed, header,
          handlers>>

----------------------------------------------------------------------------
(* Bounds *)

\* number of rewritten requests after which no new request is accepted
MaxRequests == 2
\* number of tokens the backend sends on one streamed response
MaxStreamLen == 3
\* number of complete frames of a streamed response (SpecStream)
MaxFrames == 2
\* number of complete frames of a streamed response (FairSpecStream)
MaxFairFrames == 1
\* number of requests handled at the same time
MaxHandlers == 2
\* longest model list of the backend
MaxModels == 2

----------------------------------------------------------------------------
(* JSON values *)

JNull == [t |-> "null"]
JBool(b) == [t |-> "bool", v |-> b]
JNum(n) == [t |-> "num", v |-> n]
JStr(s) == [t |-> "str", v |-> s]
JArr(s) == [t |-> "arr", v |-> s]
JObj(f) == [t |-> "obj", v |-> f]
\* bytes that are not a JSON text
Invalid == [t |-> "invalid"]

EmptyMap == <<>>
Has(m, k) == k \in DOMAIN m
Put(m, k, val) == [x \in (DOMAIN m) \cup {k} |-> IF x = k THEN val ELSE m[x]]
Del(m, k) == [x \in (DOMAIN m) \ {k} |-> m[x]]
\* Go's comma-ok type assertions m[k].(string), m[k].(bool), ...
IsType(m, k, type) == Has(m, k) /\ m[k].t = type

Bytes(layout, json) == [layout |-> layout, json |-> json]

\* a JSON number given by its literal, for integers beyond 2^53
JBig(lit) == [t |-> "num", lit |-> lit]

\* a JSON number decoded into an any is a float64: a literal that float64
\* cannot hold is rounded to the nearest one that it can
float64(val) ==
    IF val = JBig("9007199254740993") THEN JBig("9007199254740992") ELSE val

\* the value json.Unmarshal builds for a JSON value
RECURSIVE Decode(_)
Decode(val) ==
    CASE val.t = "num" -> float64(val)
      [] val.t = "arr" -> JArr([i \in 1..Len(val.v) |-> Decode(val.v[i])])
      [] val.t = "obj" -> JObj([k \in DOMAIN val.v |-> Decode(val.v[k])])
      [] OTHER -> val

\* json.Unmarshal(body, &data) with data of type map[string]any: a JSON
\* object fills the map, the literal null leaves it nil without an error,
\* every other input is an error.
Unmarshal(body) ==
    CASE body.json.t = "obj" -> [err |-> FALSE, data |-> Decode(body.json).v]
      [] body.json.t = "null" -> [err |-> FALSE, data |-> EmptyMap]
      [] OTHER -> [err |-> TRUE, data |-> EmptyMap]

\* json.Marshal(data) of a map[string]any
Marshal(data) == Bytes("gomarshal", JObj(data))

\* number of bytes of the text of a JSON value; sep is 0 for the compact
\* text json.Marshal writes and 1 for a text with a space after each colon
\* and comma
RECURSIVE jsonLen(_, _), arrLen(_, _), objLen(_, _, _)
arrLen(s, sep) ==
    IF s = <<>> THEN 0 ELSE jsonLen(Head(s), sep) + arrLen(Tail(s), sep)
objLen(m, keys, sep) ==
    IF keys = {} THEN 0
    ELSE LET k == CHOOSE x \in keys : TRUE IN
         Len(k) + 3 + sep + jsonLen(m[k], sep) + objLen(m, keys \ {k}, sep)
jsonLen(val, sep) ==
    CASE val.t = "null" -> 4
      [] val.t = "bool" -> IF val.v THEN 4 ELSE 5
      [] val.t = "num" -> IF "lit" \in DOMAIN val THEN Len(val.lit)
                          ELSE Len(ToString(val.v))
      [] val.t = "str" -> Len(val.v) + 2
      [] val.t = "arr" ->
            2 + arrLen(val.v, sep)
              + (IF Len(val.v) > 1 THEN (Len(val.v) - 1) * (1 + sep) ELSE 0)
      [] val.t = "obj" ->
            2 + objLen(val.v, DOMAIN val.v, sep)
              + (IF Cardinality(DOMAIN val.v) > 1
                 THEN (Cardinality(DOMAIN val.v) - 1) * (1 + sep) ELSE 0)
      [] OTHER -> 8

\* len(body): the text json.Marshal wrote is compact, any other text is
\* taken with a space after each colon and comma
len(body) == jsonLen(body.json, IF body.layout = "gomarshal" THEN 0 ELSE 1)

\* strconv.Itoa
Itoa(n) == ToString(n)

\* the header names followed here
HeaderNames == {"Content-Length", "Content-Type"}

\* a header map without values
NoHeader == [key \in HeaderNames |-> <<>>]

\* the loop that copies outResp.Header: w.Header().Add(header, value) for
\* each value of each name
copyHeader(h, from) == [key \in HeaderNames |-> h[key] \o from[key]]

\* mutant of HeaderSet: the value is added to those the name has
Mut_HeaderSet_Add(h, key, value) == [h EXCEPT ![key] = Append(@, value)]

\* w.Header().Set(key, value)
HeaderSet(h, key, value) == [h EXCEPT ![key] = <<value>>]

\* http.Error removes the Content-Length the handler had set
HeaderDel(h, key) == [h EXCEPT ![key] = <<>>]

----------------------------------------------------------------------------
(* Configuration *)

\* The names LoadConfig hands to transform(): five non-empty strings
\* (Validate), taken pairwise distinct as a deployment sets them.
servedModel == "Qwen/Qwen3.5"
thinkingGeneral == "thinking-general"
thinkingCoding == "thinking-coding"
instructGeneral == "instruct-general"
instructReasoning == "instruct-reasoning"

VirtualModels == {thinkingGeneral, thinkingCoding, instructGeneral, instructReasoning}

SamplingKeys == {"temperature", "top_p", "top_k", "min_p",
                 "presence_penalty", "repetition_penalty"}

thinkingGeneralParams ==
    [temperature |-> JNum(100), top_p |-> JNum(95), top_k |-> JNum(2000),
     min_p |-> JNum(0), presence_penalty |-> JNum(150), repetition_penalty |-> JNum(100)]
\* mutant of thinkingCodingParams: the general thinking profile
Mut_thinkingCodingParams_General ==
    [temperature |-> JNum(100), top_p |-> JNum(95), top_k |-> JNum(2000),
     min_p |-> JNum(0), presence_penalty |-> JNum(150), repetition_penalty |-> JNum(100)]

thinkingCodingParams ==
    [temperature |-> JNum(60), top_p |-> JNum(95), top_k |-> JNum(2000),
     min_p |-> JNum(0), presence_penalty |-> JNum(0), repetition_penalty |-> JNum(100)]
instructGeneralParams ==
    [temperature |-> JNum(70), top_p |-> JNum(80), top_k |-> JNum(2000),
     min_p |-> JNum(0), presence_penalty |-> JNum(150), repetition_penalty |-> JNum(100)]
instructReasoningParams ==
    [temperature |-> JNum(100), top_p |-> JNum(95), top_k |-> JNum(2000),
     min_p |-> JNum(0), presence_penalty |-> JNum(150), repetition_penalty |-> JNum(100)]

----------------------------------------------------------------------------
(* Request side of transform() *)

StatusBadRequest == 400
StatusInternalServerError == 500
StatusBadGateway == 502

\* mutant of resolveModel: the default case falls back to instruct-general
Mut_resolveModel_Default(modelName) ==
    IF modelName = thinkingGeneral
    THEN [ok |-> TRUE, think |-> TRUE, params |-> thinkingGeneralParams]
    ELSE IF modelName = thinkingCoding
    THEN [ok |-> TRUE, think |-> TRUE, params |-> thinkingCodingParams]
    ELSE IF modelName = instructReasoning
    THEN [ok |-> TRUE, think |-> FALSE, params |-> instructReasoningParams]
    ELSE [ok |-> TRUE, think |-> FALSE, params |-> instructGeneralParams]

\* the switch on modelName: the first matching case decides
resolveModel(modelName) ==
    IF modelName = thinkingGeneral
    THEN [ok |-> TRUE, think |-> TRUE, params |-> thinkingGeneralParams]
    ELSE IF modelName = thinkingCoding
    THEN [ok |-> TRUE, think |-> TRUE, params |-> thinkingCodingParams]
    ELSE IF modelName = instructGeneral
    THEN [ok |-> TRUE, think |-> FALSE, params |-> instructGeneralParams]
    ELSE IF modelName = instructReasoning
    THEN [ok |-> TRUE, think |-> FALSE, params |-> instructReasoningParams]
    ELSE [ok |-> FALSE, think |-> FALSE, params |-> EmptyMap]

\* mutant of fillSamplingParams: the default always wins
Mut_fillSamplingParams_Overwrite(data, samplingParams) ==
    [k \in (DOMAIN data) \cup (DOMAIN samplingParams) |->
        IF k \in DOMAIN samplingParams THEN samplingParams[k] ELSE data[k]]

\* mutant of fillSamplingParams: the loop stops at the first key, so that
\* only "temperature" is filled in
Mut_fillSamplingParams_FirstOnly(data, samplingParams) ==
    [k \in (DOMAIN data) \cup ((DOMAIN samplingParams) \cap {"temperature"}) |->
        IF k \in DOMAIN data THEN data[k] ELSE samplingParams[k]]

\* the loop of applySamplingParams as the repository has it: a key already in
\* the request is left alone, a missing one gets the default
fillSamplingParams(data, samplingParams) ==
    [k \in (DOMAIN data) \cup (DOMAIN samplingParams) |->
        IF k \in DOMAIN data THEN data[k] ELSE samplingParams[k]]

\* applySamplingParams(data, samplingParams, logger, enforce): with enforce
\* every key of the profile overwrites the request's value
applySamplingParams(data, samplingParams, enforce) ==
    IF enforce
    THEN [k \in (DOMAIN data) \cup (DOMAIN samplingParams) |->
            IF k \in DOMAIN samplingParams THEN samplingParams[k] ELSE data[k]]
    ELSE fillSamplingParams(data, samplingParams)

\* mutant of readStream: every "stream" but false and null counts as true
Mut_readStream_Truthy(data) ==
    Has(data, "stream") /\ data["stream"] \notin {JBool(FALSE), JNull}

\* the stream flag: data["stream"].(bool), false when absent or not a bool
readStream(data) ==
    IF IsType(data, "stream", "bool") THEN data["stream"].v ELSE FALSE

\* mutant of setEnableThinking: an enable_thinking the client sent is kept
Mut_setEnableThinking_KeepClient(data, thinkFlag) ==
    IF Has(data, "chat_template_kwargs")
    THEN IF data["chat_template_kwargs"].t = "obj"
         THEN [ok |-> TRUE,
               data |-> IF Has(data["chat_template_kwargs"].v, "enable_thinking")
                        THEN data
                        ELSE Put(data, "chat_template_kwargs",
                                 JObj(Put(data["chat_template_kwargs"].v,
                                          "enable_thinking", JBool(thinkFlag))))]
         ELSE [ok |-> FALSE, data |-> data]
    ELSE [ok |-> TRUE,
          data |-> Put(data, "chat_template_kwargs",
                       JObj([enable_thinking |-> JBool(thinkFlag)]))]

\* mutant of setEnableThinking: a chat_template_kwargs that is not an object
\* is replaced by a fresh object
Mut_setEnableThinking_Replace(data, thinkFlag) ==
    IF Has(data, "chat_template_kwargs") /\ data["chat_template_kwargs"].t = "obj"
    THEN [ok |-> TRUE,
          data |-> Put(data, "chat_template_kwargs",
                       JObj(Put(data["chat_template_kwargs"].v,
                                "enable_thinking", JBool(thinkFlag))))]
    ELSE [ok |-> TRUE,
          data |-> Put(data, "chat_template_kwargs",
                       JObj([enable_thinking |-> JBool(thinkFlag)]))]

\* data["chat_template_kwargs"]: set enable_thinking in the client's object,
\* create the object when the key is absent, fail when it is not an object
setEnableThinking(data, thinkFlag) ==
    IF Has(data, "chat_template_kwargs")
    THEN IF data["chat_template_kwargs"].t = "obj"
         THEN [ok |-> TRUE,
               data |-> Put(data, "chat_template_kwargs",
                            JObj(Put(data["chat_template_kwargs"].v,
                                     "enable_thinking", JBool(thinkFlag))))]
         ELSE [ok |-> FALSE, data |-> data]
    ELSE [ok |-> TRUE,
          data |-> Put(data, "chat_template_kwargs",
                       JObj([enable_thinking |-> JBool(thinkFlag)]))]

\* mutant of overrideModel: the client's model name goes out
Mut_overrideModel_Keep(data) == data

\* data["model"] = servedModel
overrideModel(data) == Put(data, "model", JStr(servedModel))

Rejected(status) ==
    [status |-> status, out |-> Bytes("none", Invalid), think |-> FALSE,
     stream |-> FALSE, virtualModel |-> ""]

\* transform(), from reading the body to the marshalled outgoing body:
\* status 0 means the request goes to the backend with body out
rewriteRequest(req, enforce) ==
    IF req.readErr THEN Rejected(StatusInternalServerError)
    ELSE LET parsed == Unmarshal(req.body) IN
    IF parsed.err THEN Rejected(StatusInternalServerError)
    ELSE IF ~IsType(parsed.data, "model", "str") THEN Rejected(StatusBadRequest)
    ELSE LET modelName == parsed.data["model"].v
             vm == resolveModel(modelName) IN
    IF ~vm.ok THEN Rejected(StatusBadRequest)
    ELSE LET sampled == applySamplingParams(parsed.data, vm.params, enforce)
             served == overrideModel(sampled)
             kw == setEnableThinking(served, vm.think) IN
    IF ~kw.ok THEN Rejected(StatusBadRequest)
    ELSE [status |-> 0, out |-> Marshal(kw.data), think |-> vm.think,
          stream |-> readStream(parsed.data), virtualModel |-> modelName]

\* mutant of Add: the counter is set to delta, as a read that missed the
\* other handlers' additions followed by a write makes it
Mut_Add_Store(counter, delta) == delta

\* modifiedRequests.Add(delta) on the atomic.Int64
Add(counter, delta) == counter + delta

\* httpError(ctx, w, statusCode)
httpError(statusCode) ==
    [status |-> statusCode, body |-> Bytes("errortext", Invalid), aborted |-> FALSE]

----------------------------------------------------------------------------
(* Buffered response path *)

\* the string a message field holds, "" when absent or not a string
strOf(message, k) == IF IsType(message, k, "str") THEN message[k].v ELSE ""

\* mutant of reasoningText: reasoning is preferred to reasoning_content
Mut_reasoningText_PreferReasoning(message) ==
    IF strOf(message, "reasoning") # ""
    THEN strOf(message, "reasoning")
    ELSE strOf(message, "reasoning_content")

\* reasoningText of fixVLLMResponse: reasoning_content when it is a
\* non-empty string, otherwise reasoning when that is one, otherwise ""
reasoningText(message) ==
    IF strOf(message, "reasoning_content") # ""
    THEN strOf(message, "reasoning_content")
    ELSE strOf(message, "reasoning")

\* the condition under which fixVLLMResponse moves text into content
needsFix(message) ==
    /\ ~IsType(message, "content", "str") \/ message["content"].v = ""
    /\ IsType(message, "reasoning_content", "str") \/ IsType(message, "reasoning", "str")
    /\ reasoningText(message) # ""

fixMessage(message) ==
    IF needsFix(message)
    THEN Del(Del(Put(message, "content", JStr(reasoningText(message))),
                 "reasoning_content"), "reasoning")
    ELSE message

\* mutant of messageKey: a delta is never looked at
Mut_messageKey_MessageOnly(choiceMap) ==
    IF IsType(choiceMap, "message", "obj") THEN "message" ELSE "none"

\* which of "message" / "delta" the loop body works on: message wins
messageKey(choiceMap) ==
    IF IsType(choiceMap, "message", "obj") THEN "message"
    ELSE IF IsType(choiceMap, "delta", "obj") THEN "delta"
    ELSE "none"

choiceModified(choice) ==
    /\ choice.t = "obj"
    /\ messageKey(choice.v) # "none"
    /\ needsFix(choice.v[messageKey(choice.v)].v)

fixChoice(choice) ==
    IF choice.t = "obj" /\ messageKey(choice.v) # "none"
    THEN JObj(Put(choice.v, messageKey(choice.v),
                  JObj(fixMessage(choice.v[messageKey(choice.v)].v))))
    ELSE choice

\* mutant of fixVLLMResponse: the body is marshalled again whether or not a
\* choice was modified
Mut_fixVLLMResponse_AlwaysMarshal(responseBody, thinkFlag, streamFlag) ==
    IF thinkFlag \/ streamFlag THEN responseBody
    ELSE LET parsed == Unmarshal(responseBody) IN
    IF parsed.err THEN responseBody
    ELSE IF ~IsType(parsed.data, "choices", "arr") THEN responseBody
    ELSE LET choices == parsed.data["choices"].v IN
    IF Len(choices) = 0 THEN responseBody
    ELSE Marshal(Put(parsed.data, "choices",
                     JArr([i \in 1..Len(choices) |-> fixChoice(choices[i])])))

fixVLLMResponse(responseBody, thinkFlag, streamFlag) ==
    IF thinkFlag \/ streamFlag THEN responseBody
    ELSE LET parsed == Unmarshal(responseBody) IN
    IF parsed.err THEN responseBody
    ELSE IF ~IsType(parsed.data, "choices", "arr") THEN responseBody
    ELSE LET choices == parsed.data["choices"].v IN
    IF Len(choices) = 0 THEN responseBody
    ELSE IF \E i \in 1..Len(choices) : choiceModified(choices[i])
    THEN Marshal(Put(parsed.data, "choices",
                     JArr([i \in 1..Len(choices) |-> fixChoice(choices[i])])))
    ELSE responseBody

\* mutant of fixModelName: the model is set whether or not the key exists
Mut_fixModelName_Always(responseBody, vmName) ==
    LET parsed == Unmarshal(responseBody) IN
    IF parsed.err THEN [panic |-> FALSE, body |-> responseBody]
    ELSE IF Has(parsed.data, "model") /\ parsed.data["model"].t # "str"
    THEN [panic |-> TRUE, body |-> responseBody]
    ELSE [panic |-> FALSE,
          body |-> Marshal(Put(parsed.data, "model", JStr(vmName)))]

\* fixModelName: the argument data["model"].(string) of the Debug call is a
\* type assertion without comma-ok, so a model that is not a string panics
fixModelName(responseBody, vmName) ==
    LET parsed == Unmarshal(responseBody) IN
    IF parsed.err THEN [panic |-> FALSE, body |-> responseBody]
    ELSE IF Has(parsed.data, "model")
    THEN IF parsed.data["model"].t = "str"
         THEN [panic |-> FALSE,
               body |-> Marshal(Put(parsed.data, "model", JStr(vmName)))]
         ELSE [panic |-> TRUE, body |-> responseBody]
    ELSE [panic |-> FALSE, body |-> responseBody]

\* a panic leaves the handler before WriteHeader: net/http recovers it and
\* drops the connection, the client gets neither status nor body
Aborted == [status |-> 0, body |-> Bytes("none", Invalid), aborted |-> TRUE]

\* the else branch of "if stream" once io.ReadAll returned responseBody
bufferedReply(statusCode, responseBody, thinkFlag, streamFlag, vmName) ==
    LET named == fixModelName(fixVLLMResponse(responseBody, thinkFlag, streamFlag),
                              vmName) IN
    IF named.panic THEN Aborted
    ELSE [status |-> statusCode, body |-> named.body, aborted |-> FALSE]

----------------------------------------------------------------------------
(* Streaming response path *)

(* A streamed body is a sequence of tokens, each a run of bytes that a read  *)
(* delivers whole: the newline, a space, the prefix "data: ", the sentinel   *)
(* [DONE], a line of text that is not JSON, a long run of payload bytes, and *)
(* a JSON text.                                                              *)
NL == [k |-> "nl"]
SP == [k |-> "sp"]
DataPrefix == [k |-> "data"]
Done == [k |-> "done"]
Text == [k |-> "text"]
Pad == [k |-> "pad"]
Json(body) == [k |-> "json", body |-> body]

\* number of bytes of a token
TokLen(tok) ==
    CASE tok.k = "nl" -> 1
      [] tok.k = "sp" -> 1
      [] tok.k = "data" -> 6
      [] tok.k = "done" -> 6
      [] tok.k = "text" -> 8
      [] tok.k = "pad" -> 3000
      [] tok.k = "json" -> 100

RECURSIVE ByteLen(_)
ByteLen(b) == IF b = <<>> THEN 0 ELSE TokLen(Head(b)) + ByteLen(Tail(b))

\* capacity of temp, the most one Read returns
ReadSize == 4096
\* mutant of Watermark: the flush waits for twice as many bytes
Mut_Watermark_Double == 2 * 8192

\* buffer size above which the raw bytes are flushed
Watermark == 8192

\* bytes.Index(buf, "\n\n"): position of the first blank line, 0 when none
eventEnd(b) ==
    IF \E i \in 1..(Len(b) - 1) : b[i] = NL /\ b[i + 1] = NL
    THEN CHOOSE i \in 1..(Len(b) - 1) :
            /\ b[i] = NL /\ b[i + 1] = NL
            /\ \A j \in 1..(i - 1) : ~(b[j] = NL /\ b[j + 1] = NL)
    ELSE 0

IsSpace(tok) == tok.k \in {"nl", "sp"}

\* bytes.TrimSpace
RECURSIVE TrimLeft(_)
TrimLeft(b) == IF b # <<>> /\ IsSpace(Head(b)) THEN TrimLeft(Tail(b)) ELSE b
RECURSIVE TrimRight(_)
TrimRight(b) ==
    IF b # <<>> /\ IsSpace(b[Len(b)]) THEN TrimRight(SubSeq(b, 1, Len(b) - 1)) ELSE b
TrimSpace(b) == TrimRight(TrimLeft(b))

\* json.Unmarshal of the payload of an event
UnmarshalPayload(jsonPart) ==
    IF Len(jsonPart) = 1 /\ jsonPart[1].k = "json"
    THEN Unmarshal(jsonPart[1].body)
    ELSE [err |-> TRUE, data |-> EmptyMap]

fixModelNameInSSE(event, vmName) ==
    IF event = <<>> \/ Head(event) # DataPrefix THEN event
    ELSE LET jsonPart == TrimSpace(Tail(event)) IN
    IF jsonPart = <<>> \/ jsonPart = <<Done>> THEN event
    ELSE LET parsed == UnmarshalPayload(jsonPart) IN
    IF parsed.err THEN event
    ELSE IF IsType(parsed.data, "model", "str")
    THEN <<DataPrefix, Json(Marshal(Put(parsed.data, "model", JStr(vmName)))), NL, NL>>
    ELSE event

\* what one pass of the inner loop writes for an extracted event
rewriteEvent(event, vmName) ==
    IF Head(event) = DataPrefix THEN fixModelNameInSSE(event, vmName) ELSE event

\* the inner loop of streamResponse: the events written, the bytes left
RECURSIVE drainEvents(_, _)
drainEvents(b, vmName) ==
    LET idx == eventEnd(b) IN
    IF idx = 0 THEN [writes |-> <<>>, rest |-> b]
    ELSE LET r == drainEvents(SubSeq(b, idx + 2, Len(b)), vmName) IN
         [writes |-> <<rewriteEvent(SubSeq(b, 1, idx + 1), vmName)>> \o r.writes,
          rest |-> r.rest]

\* mutant of streamIteration: a failed write of an event does not end the loop
Mut_streamIteration_IgnoreWriteError(b, chunk, err, vmName, open) ==
    LET b1 == b \o chunk IN
    IF err = "EOF"
    THEN IF b1 = <<>> THEN [ret |-> "nil", writes |-> <<>>, buf |-> b1]
         ELSE IF open THEN [ret |-> "nil", writes |-> <<b1>>, buf |-> b1]
         ELSE [ret |-> "werr", writes |-> <<>>, buf |-> b1]
    ELSE IF err = "err" THEN [ret |-> "err", writes |-> <<>>, buf |-> b1]
    ELSE LET d == drainEvents(b1, vmName) IN
    IF ByteLen(d.rest) > Watermark
    THEN IF open THEN [ret |-> "", writes |-> d.writes \o <<d.rest>>, buf |-> <<>>]
         ELSE [ret |-> "werr", writes |-> <<>>, buf |-> d.rest]
    ELSE [ret |-> "", writes |-> IF open THEN d.writes ELSE <<>>, buf |-> d.rest]

\* mutant of streamIteration: at end of stream the buffer is not written
Mut_streamIteration_NoFlushAtEOF(b, chunk, err, vmName, open) ==
    LET b1 == b \o chunk IN
    IF err = "EOF" THEN [ret |-> "nil", writes |-> <<>>, buf |-> b1]
    ELSE IF err = "err" THEN [ret |-> "err", writes |-> <<>>, buf |-> b1]
    ELSE LET d == drainEvents(b1, vmName) IN
    IF d.writes # <<>> /\ ~open
    THEN [ret |-> "werr", writes |-> <<>>, buf |-> d.rest]
    ELSE IF ByteLen(d.rest) > Watermark
    THEN IF open THEN [ret |-> "", writes |-> d.writes \o <<d.rest>>, buf |-> <<>>]
         ELSE [ret |-> "werr", writes |-> d.writes, buf |-> d.rest]
    ELSE [ret |-> "", writes |-> d.writes, buf |-> d.rest]

\* one iteration of the outer loop of streamResponse, for a Read that
\* returned chunk and err ("nil", "EOF" or "err"), with the client able to
\* take writes or not.  ret is "" while the loop goes on.
streamIteration(b, chunk, err, vmName, open) ==
    LET b1 == b \o chunk IN
    IF err = "EOF"
    THEN IF b1 = <<>> THEN [ret |-> "nil", writes |-> <<>>, buf |-> b1]
         ELSE IF open THEN [ret |-> "nil", writes |-> <<b1>>, buf |-> b1]
         ELSE [ret |-> "werr", writes |-> <<>>, buf |-> b1]
    ELSE IF err = "err" THEN [ret |-> "err", writes |-> <<>>, buf |-> b1]
    ELSE LET d == drainEvents(b1, vmName) IN
    IF d.writes # <<>> /\ ~open
    THEN [ret |-> "werr", writes |-> <<>>, buf |-> d.rest]
    ELSE IF ByteLen(d.rest) > Watermark
    THEN IF open THEN [ret |-> "", writes |-> d.writes \o <<d.rest>>, buf |-> <<>>]
         ELSE [ret |-> "werr", writes |-> d.writes, buf |-> d.rest]
    ELSE [ret |-> "", writes |-> d.writes, buf |-> d.rest]

----------------------------------------------------------------------------
(* Inputs: what clients and the backend may send *)

BaseMessages == JArr(<<JObj([role |-> JStr("user"), content |-> JStr("hi")])>>)

ModelChoices ==
    {EmptyMap} \cup
    {[model |-> val] : val \in
        {JStr(thinkingGeneral), JStr(thinkingCoding), JStr(instructGeneral),
         JStr(instructReasoning), JStr("Thinking-General"), JStr(servedModel),
         JStr("gpt-4"), JStr(""), JNum(100), JNull, JObj(EmptyMap)}}

StreamChoices ==
    {EmptyMap, [stream |-> JBool(TRUE)], [stream |-> JBool(FALSE)],
     [stream |-> JStr("true")]}

KwargsChoices ==
    {EmptyMap} \cup
    {[chat_template_kwargs |-> val] : val \in
        {JObj(EmptyMap),
         JObj([enable_thinking |-> JBool(TRUE), foo |-> JStr("bar")]),
         JObj([enable_thinking |-> JBool(FALSE), foo |-> JStr("bar")]),
         JObj([enable_thinking |-> JStr("yes"), n |-> JNum(100)]),
         JStr("x"), JNull, JArr(<<>>), JBool(TRUE)}}

\* a value for each sampling key that no profile has
ClientValue(k) ==
    CASE k = "temperature" -> JNum(42)
      [] k = "top_p" -> JNum(50)
      [] k = "top_k" -> JNum(4000)
      [] k = "min_p" -> JNum(5)
      [] k = "presence_penalty" -> JNum(20)
      [] k = "repetition_penalty" -> JNum(110)

SamplingChoices ==
    {[k \in S |-> ClientValue(k)] : S \in SUBSET SamplingKeys} \cup
    {[top_k |-> JNull, min_p |-> JStr("x"), temperature |-> JBool(TRUE)],
     [temperature |-> JNum(100), top_p |-> JNum(80)]}

RequestObjects ==
    {m @@ st @@ kw @@ [messages |-> BaseMessages] :
        m \in ModelChoices, st \in StreamChoices, kw \in KwargsChoices} \cup
    {[model |-> JStr(vm)] @@ sp @@ [messages |-> BaseMessages, seed |-> JNum(700)] :
        vm \in VirtualModels, sp \in SamplingChoices} \cup
    {[model |-> JStr(vm), stream |-> JBool(TRUE), temperature |-> JNum(42),
      chat_template_kwargs |-> JObj([foo |-> JStr("bar")])] : vm \in VirtualModels} \cup
    {[model |-> JStr(thinkingGeneral), seed |-> JBig("9007199254740993")]}

ClientRequests ==
    {[readErr |-> TRUE, body |-> Bytes("client", Invalid)]} \cup
    {[readErr |-> FALSE, body |-> Bytes("client", j)] :
        j \in {Invalid, JNull, JArr(<<>>), JStr("x"), JNum(100), JBool(TRUE)}} \cup
    {[readErr |-> FALSE, body |-> Bytes("client", JObj(o))] : o \in RequestObjects}

BackendStatuses == {200, 503}

BackendMessages ==
    {[content |-> JStr(""), reasoning_content |-> JStr("hello")],
     [content |-> JStr("hi"), reasoning_content |-> JStr("why")],
     [content |-> JNull, reasoning |-> JStr("r")],
     [reasoning_content |-> JStr(""), reasoning |-> JStr("r")],
     [content |-> JStr(""), reasoning_content |-> JNum(5)],
     [content |-> JStr(""), reasoning_content |-> JNum(5), reasoning |-> JStr("r")],
     [content |-> JStr(""), reasoning_content |-> JStr("a"), reasoning |-> JStr("b")],
     [content |-> JStr("hi")],
     [role |-> JStr("assistant"), content |-> JStr("")]}

BackendChoices ==
    {JObj([message |-> JObj(m)]) : m \in BackendMessages} \cup
    {JObj([delta |-> JObj([reasoning |-> JStr("r")])]),
     JObj([message |-> JObj([content |-> JStr("hi")]),
           delta |-> JObj([content |-> JStr(""), reasoning |-> JStr("r")])]),
     JObj([message |-> JStr("x"),
           delta |-> JObj([content |-> JStr(""), reasoning |-> JStr("r")])]),
     JObj([index |-> JNum(0)]),
     JNum(100)}

BackendChoiceArrays ==
    {<<c>> : c \in BackendChoices} \cup
    {<<>>,
     <<JObj([message |-> JObj([content |-> JStr("hi")])]),
       JObj([message |-> JObj([content |-> JStr(""), reasoning_content |-> JStr("hello")])])>>,
     <<JNum(100),
       JObj([message |-> JObj([content |-> JStr(""), reasoning_content |-> JStr("hello")])])>>}

BackendObjects ==
    {m @@ c @@ [id |-> JStr("cmpl-1")] :
        m \in {EmptyMap, [model |-> JStr(servedModel)], [model |-> JStr(thinkingGeneral)],
               [model |-> JNum(700)], [model |-> JNull]},
        c \in {EmptyMap, [choices |-> JStr("x")], [choices |-> JNull]} \cup
              {[choices |-> JArr(a)] : a \in BackendChoiceArrays}}

\* what io.ReadAll(outResp.Body) may return
BackendBodies ==
    {Bytes("backend", Invalid)} \cup
    {Bytes(l, j) : l \in {"backend", "gomarshal"},
                   j \in {JNull, JArr(<<>>), JStr("x"), JNum(100), JBool(TRUE)}
                         \cup {JObj(o) : o \in BackendObjects}}

\* the Content-Type the backend declares: JSON with a completion, text with
\* an error
BackendContentType(statusCode) ==
    IF statusCode = 200 THEN "application/json" ELSE "text/plain"

\* the bodies the backend sends with their length declared
DeclaredBodies ==
    {Bytes("backend", Invalid)} \cup
    {b \in BackendBodies : /\ b.json.t = "obj"
                           /\ IsType(b.json.v, "model", "str")
                           /\ ~Has(b.json.v, "choices")}

\* the Content-Length the backend may declare: none ("", a body sent in
\* chunks, as a streamed one is) or the length of the body it sends
BackendContentLengths == {""} \cup {Itoa(len(b)) : b \in DeclaredBodies}

\* the JSON text of a streamed chunk as the backend sends it
StreamPayload ==
    Bytes("backend",
          JObj([model |-> JStr(servedModel), id |-> JStr("cmpl-1"),
                choices |-> JArr(<<JObj([delta |->
                    JObj([content |-> JStr(""),
                          reasoning_content |-> JStr("hello")])])>>)]))

StreamTokens == {NL, DataPrefix, Json(StreamPayload)}

\* the streamed bodies the backend may send: every sequence of tokens
MainStreamBodies == UNION {[1..n -> StreamTokens] : n \in 0..MaxStreamLen}

\* how many tokens of the body p one Read may deliver: at most ReadSize bytes
ReadSizes(p) == {k \in 0..Len(p) : ByteLen(SubSeq(p, 1, k)) <= ReadSize}

----------------------------------------------------------------------------
(* The handler *)

NoRequest == [readErr |-> FALSE, body |-> Bytes("none", Invalid)]
NoBody == Bytes("none", Invalid)
NoResponse == [status |-> 0, body |-> NoBody, aborted |-> FALSE]
NoUpstream == [status |-> 0, body |-> NoBody, aborted |-> FALSE, header |-> NoHeader]
NoHandlers == <<>>

Init ==
    /\ enforceSamplingParams \in BOOLEAN
    /\ modifiedRequests = 0
    /\ pc = "idle"
    /\ request = NoRequest
    /\ think = FALSE
    /\ stream = FALSE
    /\ virtualModel = ""
    /\ outreq = <<>>
    /\ backendCalls = 0
    /\ outResp = NoUpstream
    /\ doErr = ""
    /\ fixedBody = NoBody
    /\ client = NoResponse
    /\ pending = <<>>
    /\ received = <<>>
    /\ lastRead = ""
    /\ buf = <<>>
    /\ nread = 0
    /\ written = <<>>
    /\ clientOpen = TRUE
    /\ streamErr = ""
    /\ bodyClosed = FALSE
    /\ header = NoHeader
    /\ handlers = NoHandlers

streamVars == <<pending, received, lastRead,
                buf, nread, written, clientOpen, streamErr, bodyClosed>>

\* transform() up to a rejection
Reject(req) ==
    LET r == rewriteRequest(req, enforceSamplingParams) IN
    /\ pc = "idle"
    /\ modifiedRequests < MaxRequests
    /\ r.status # 0
    /\ request' = req
    /\ client' = httpError(r.status)
    /\ pc' = "done"
    /\ UNCHANGED <<enforceSamplingParams, handlers, header, modifiedRequests, think, stream,
                   virtualModel, outreq, backendCalls, outResp, doErr, fixedBody,
                   streamVars>>

\* transform() up to the call of httpCli.Do
Dispatch(req) ==
    LET r == rewriteRequest(req, enforceSamplingParams) IN
    /\ pc = "idle"
    /\ modifiedRequests < MaxRequests
    /\ r.status = 0
    /\ request' = req
    /\ think' = r.think
    /\ stream' = r.stream
    /\ virtualModel' = r.virtualModel
    /\ modifiedRequests' = Add(modifiedRequests, 1)
    /\ outreq' = Append(outreq, r.out)
    /\ backendCalls' = backendCalls + 1
    /\ pc' = "sent"
    /\ UNCHANGED <<enforceSamplingParams, handlers, header, outResp, doErr, fixedBody, client,
                   streamVars>>

\* the errors httpCli.Do may return
DoErrors == {"ECONNREFUSED", "timeout", "canceled"}

\* mutant of doErrorStatus: every transport failure is a bad gateway
Mut_doErrorStatus_AlwaysBadGateway(err) == StatusBadGateway

\* the switch on the error of httpCli.Do
doErrorStatus(err) ==
    IF err = "ECONNREFUSED" THEN StatusBadGateway ELSE StatusInternalServerError

\* httpCli.Do returned an error
DoFails(err) ==
    /\ pc = "sent"
    /\ doErr' = err
    /\ client' = httpError(doErrorStatus(err))
    /\ pc' = "done"
    /\ UNCHANGED <<enforceSamplingParams, handlers, header, modifiedRequests, request, think, stream,
                   virtualModel, outreq, backendCalls, outResp, fixedBody,
                   streamVars>>

\* httpCli.Do returned the backend's status line and headers; the backend
\* has taken the request
DoReturns(statusCode, contentLength) ==
    /\ pc = "sent"
    /\ stream => contentLength = ""
    /\ outResp' = [status |-> statusCode, body |-> NoBody, aborted |-> FALSE,
                   header |-> [key \in HeaderNames |->
                                 IF key = "Content-Type"
                                 THEN <<BackendContentType(statusCode)>>
                                 ELSE IF contentLength = "" THEN <<>>
                                 ELSE <<contentLength>>]]
    /\ header' = copyHeader(header, outResp'.header)
    /\ request' = NoRequest
    /\ outreq' = <<>>
    /\ pc' = "responded"
    /\ UNCHANGED <<enforceSamplingParams, handlers, modifiedRequests, think, stream,
                   virtualModel, backendCalls, doErr, fixedBody, client, streamVars>>

\* buffered path: io.ReadAll failed
ReadAllFails ==
    /\ pc = "responded"
    /\ ~stream
    /\ client' = httpError(StatusInternalServerError)
    /\ header' = HeaderDel(header, "Content-Length")
    /\ bodyClosed' = TRUE
    /\ pc' = "done"
    /\ UNCHANGED <<enforceSamplingParams, handlers, modifiedRequests, request, think, stream,
                   virtualModel, outreq, backendCalls, outResp, doErr, fixedBody,
                   pending, received, lastRead,
                   buf, nread, written, clientOpen, streamErr>>

\* buffered path: io.ReadAll returned responseBody, the two fixes, the write
BufferedReply(responseBody) ==
    /\ pc = "responded"
    /\ ~stream
    /\ outResp' = [outResp EXCEPT !.body = responseBody]
    /\ fixedBody' = fixVLLMResponse(responseBody, think, stream)
    /\ outResp.header["Content-Length"] \in {<<>>, <<Itoa(len(responseBody))>>}
    /\ client' = bufferedReply(outResp.status, responseBody, think, stream, virtualModel)
    /\ header' = IF client'.aborted THEN header
                 ELSE HeaderSet(header, "Content-Length", Itoa(len(client'.body)))
    /\ bodyClosed' = TRUE
    /\ pc' = "done"
    /\ UNCHANGED <<enforceSamplingParams, handlers, modifiedRequests, request, think, stream,
                   virtualModel, outreq, backendCalls, doErr,
                   pending, received, lastRead,
                   buf, nread, written, clientOpen, streamErr>>

\* streaming path: w.WriteHeader, then streamResponse starts on the body
\* the backend is going to send
StreamBegin(body) ==
    /\ pc = "responded"
    /\ stream
    /\ client' = [status |-> outResp.status, body |-> NoBody, aborted |-> FALSE]
    /\ pending' = body
    /\ pc' = "streaming"
    /\ UNCHANGED <<enforceSamplingParams, handlers, header, modifiedRequests, request, think, stream,
                   virtualModel, outreq, backendCalls, outResp, doErr, fixedBody,
                   received, lastRead,
                   buf, nread, written, clientOpen, streamErr, bodyClosed>>

\* one iteration of streamResponse's loop, for a Read that returns the next
\* k tokens of the body and err: "nil", "EOF" (only with the last bytes of the
\* body or after them) or "err" (a failure, for instance the cancelled
\* context of a client that went away); when it returns, so does the handler
StreamRead(k, err) ==
    LET chunk == SubSeq(pending, 1, k)
        it == streamIteration(buf, chunk, err, virtualModel, clientOpen) IN
    /\ pc = "streaming"
    /\ k \in ReadSizes(pending)
    /\ err = "nil" => k >= 1
    /\ err = "EOF" => k = Len(pending)
    /\ nread' = nread + k
    /\ received' = received \o chunk
    /\ pending' = SubSeq(pending, k + 1, Len(pending))
    /\ lastRead' = err
    /\ buf' = it.buf
    /\ written' = written \o it.writes
    /\ streamErr' = it.ret
    /\ bodyClosed' = (it.ret # "")
    /\ pc' = IF it.ret = "" THEN "streaming" ELSE "done"
    /\ UNCHANGED <<enforceSamplingParams, handlers, header, modifiedRequests, request, think, stream,
                   virtualModel, outreq, backendCalls, outResp, doErr, fixedBody,
                   client, clientOpen>>

\* the client goes away while the response is streamed: its context is
\* cancelled and writes to it fail
ClientDisconnect ==
    /\ pc = "streaming"
    /\ clientOpen
    /\ clientOpen' = FALSE
    /\ UNCHANGED <<enforceSamplingParams, handlers, header, modifiedRequests, pc, request, think,
                   stream, virtualModel, outreq, backendCalls, outResp, doErr,
                   fixedBody, client, pending, received, lastRead,
                   buf, nread, written, streamErr, bodyClosed>>

\* the exchange is over, the next request may come
Finish ==
    /\ pc = "done"
    /\ pc' = "idle"
    /\ request' = NoRequest
    /\ think' = FALSE
    /\ stream' = FALSE
    /\ virtualModel' = ""
    /\ outreq' = <<>>
    /\ backendCalls' = 0
    /\ outResp' = NoUpstream
    /\ doErr' = ""
    /\ fixedBody' = NoBody
    /\ client' = NoResponse
    /\ pending' = <<>>
    /\ received' = <<>>
    /\ lastRead' = ""
    /\ buf' = <<>>
    /\ nread' = 0
    /\ written' = <<>>
    /\ clientOpen' = TRUE
    /\ streamErr' = ""
    /\ bodyClosed' = FALSE
    /\ header' = NoHeader
    /\ UNCHANGED <<enforceSamplingParams, handlers, modifiedRequests>>

Next ==
    \/ \E req \in ClientRequests : Reject(req)
    \/ \E req \in ClientRequests : Dispatch(req)
    \/ \E err \in DoErrors : DoFails(err)
    \/ \E statusCode \in BackendStatuses, contentLength \in BackendContentLengths :
          DoReturns(statusCode, contentLength)
    \/ ReadAllFails
    \/ \E responseBody \in BackendBodies : BufferedReply(responseBody)
    \/ \E body \in MainStreamBodies : StreamBegin(body)
    \/ \E k \in 0..MaxStreamLen, err \in {"nil", "EOF", "err"} : StreamRead(k, err)
    \/ ClientDisconnect
    \/ Finish

Spec == Init /\ [][Next]_vars

----------------------------------------------------------------------------
(* The streaming path by itself: streamResponse on a body made of frames *)

\* a chunk with a model to rewrite, the end marker, a frame without payload,
\* a frame longer than the watermark, a frame that starts with an event
\* line, a frame whose payload is not JSON
DataFrame == <<DataPrefix, Json(StreamPayload), NL, NL>>
DoneFrame == <<DataPrefix, Done, NL, NL>>
EmptyFrame == <<DataPrefix, NL, NL>>
LongFrame == <<DataPrefix, Pad, Pad, Pad, NL, NL>>
EventFrame == <<Text, NL, DataPrefix, Json(StreamPayload), NL, NL>>
TextFrame == <<DataPrefix, Text, NL, NL>>
StreamFrames == {DataFrame, DoneFrame, EmptyFrame, LongFrame, EventFrame, TextFrame}

\* what may follow the last complete frame
StreamTails == {<<>>, <<DataPrefix, Json(StreamPayload)>>}

RECURSIVE FrameSeqs(_)
FrameSeqs(n) ==
    IF n = 0 THEN {<<>>}
    ELSE FrameSeqs(n - 1) \cup
         {p \o f : p \in FrameSeqs(n - 1), f \in StreamFrames}

StreamBodiesUpTo(n) == {p \o t : p \in FrameSeqs(n), t \in StreamTails}
StreamBodies == StreamBodiesUpTo(MaxFrames)

\* transform has sent the rewritten request of a stream=true request, the
\* backend answered, the headers went to the client: streamResponse starts
InitStreamOn(bodies) ==
    /\ enforceSamplingParams = FALSE
    /\ modifiedRequests = 1
    /\ pc = "streaming"
    /\ request = NoRequest
    /\ virtualModel = instructGeneral
    /\ think = resolveModel(virtualModel).think
    /\ stream = TRUE
    /\ outreq = <<>>
    /\ backendCalls = 1
    /\ outResp = [status |-> 200, body |-> NoBody, aborted |-> FALSE,
                  header |-> NoHeader]
    /\ doErr = ""
    /\ fixedBody = NoBody
    /\ client = [status |-> 200, body |-> NoBody, aborted |-> FALSE]
    /\ pending \in bodies
    /\ received = <<>>
    /\ lastRead = ""
    /\ buf = <<>>
    /\ nread = 0
    /\ written = <<>>
    /\ clientOpen = TRUE
    /\ streamErr = ""
    /\ bodyClosed = FALSE
    /\ header = NoHeader
    /\ handlers = NoHandlers

InitStream == InitStreamOn(StreamBodies)

\* a Read of the streamed body
ReadStep ==
    \E k \in 0..Len(pending), err \in {"nil", "EOF", "err"} : StreamRead(k, err)

NextStream ==
    \/ ReadStep
    \/ ClientDisconnect

SpecStream == InitStream /\ [][NextStream]_vars

\* outreq carries the client's context (r.Clone(ctx)), so once the client
\* is gone the transport ends a Read that waits: a Read after the disconnect
\* returns
FairSpecStream ==
    /\ InitStreamOn(StreamBodiesUpTo(MaxFairFrames))
    /\ [][NextStream]_vars
    /\ WF_vars(~clientOpen /\ ReadStep)

\* a backend that goes on to the end of its stream: every Read returns
LiveSpecStream ==
    /\ InitStreamOn(StreamBodiesUpTo(MaxFairFrames))
    /\ [][NextStream]_vars
    /\ WF_vars(ReadStep)

----------------------------------------------------------------------------
(* Requests handled at the same time: net/http runs the handler once per    *)
(* request, each run in a goroutine of its own with its own locals; the     *)
(* runs share the counter modifiedRequests and the configuration. A run is  *)
(* cut where another run may come in between: after the switch on the model *)
(* name, after the request is sent, after the response is written.          *)

Handlers == 1..MaxHandlers

\* the locals of a run that has not started
IdleHandler ==
    [pc |-> "idle", request |-> NoRequest, data |-> EmptyMap, think |-> FALSE,
     stream |-> FALSE, virtualModel |-> "", out |-> NoBody, client |-> NoResponse]

\* mutant of storeLocals: think and the model name are variables of the
\* package, what one run writes every run reads
Mut_storeLocals_Shared(hs, h, rec) ==
    [g \in DOMAIN hs |->
        IF g = h THEN rec
        ELSE [hs[g] EXCEPT !.think = rec.think, !.virtualModel = rec.virtualModel]]

\* the locals are those of the closure's run: a run writes its own only
storeLocals(hs, h, rec) == [hs EXCEPT ![h] = rec]

\* what the requests sent at the same time are: one for each virtual model,
\* one with a sampling value of the client, one for an unknown model, one
\* with chat_template_kwargs that is not an object
ConcRequests ==
    {[readErr |-> FALSE, body |-> Bytes("client", JObj(o))] : o \in
        {[model |-> JStr(vm), messages |-> BaseMessages] : vm \in VirtualModels} \cup
        {[model |-> JStr(instructGeneral), temperature |-> ClientValue("temperature")],
         [model |-> JStr("gpt-4"), messages |-> BaseMessages],
         [model |-> JStr(thinkingCoding), chat_template_kwargs |-> JStr("x")]}}

\* what the backend answers to them
ConcBodies ==
    {Bytes("backend", Invalid),
     Bytes("backend",
           JObj([model |-> JStr(servedModel), id |-> JStr("cmpl-1"),
                 choices |-> JArr(<<JObj([message |->
                     JObj([content |-> JStr(""),
                           reasoning_content |-> JStr("hello")])])>>)]))}

\* the variables of the single run, which the concurrent runs leave alone
singleVars == <<pc, request, think, stream, virtualModel, outreq, backendCalls,
                outResp, doErr, fixedBody, client, streamVars, header>>

InitConc ==
    /\ enforceSamplingParams \in BOOLEAN
    /\ modifiedRequests = 0
    /\ pc = "idle"
    /\ request = NoRequest
    /\ think = FALSE
    /\ stream = FALSE
    /\ virtualModel = ""
    /\ outreq = <<>>
    /\ backendCalls = 0
    /\ outResp = NoUpstream
    /\ doErr = ""
    /\ fixedBody = NoBody
    /\ client = NoResponse
    /\ pending = <<>>
    /\ received = <<>>
    /\ lastRead = ""
    /\ buf = <<>>
    /\ nread = 0
    /\ written = <<>>
    /\ clientOpen = TRUE
    /\ streamErr = ""
    /\ bodyClosed = FALSE
    /\ header = NoHeader
    /\ handlers = [h \in Handlers |-> IdleHandler]

\* run h ends with an error status
ConcError(h, req, statusCode) ==
    storeLocals(handlers, h,
                [handlers[h] EXCEPT !.pc = "done", !.request = req,
                                    !.client = httpError(statusCode)])

\* run h from reading the body to the end of the switch on the model name
ConcResolve(h, req) ==
    LET parsed == Unmarshal(req.body) IN
    /\ handlers[h].pc = "idle"
    /\ handlers' =
         IF req.readErr \/ parsed.err
         THEN ConcError(h, req, StatusInternalServerError)
         ELSE IF ~IsType(parsed.data, "model", "str")
         THEN ConcError(h, req, StatusBadRequest)
         ELSE IF ~resolveModel(parsed.data["model"].v).ok
         THEN ConcError(h, req, StatusBadRequest)
         ELSE storeLocals(handlers, h,
                [handlers[h] EXCEPT
                   !.pc = "resolved",
                   !.request = req,
                   !.stream = readStream(parsed.data),
                   !.think = resolveModel(parsed.data["model"].v).think,
                   !.virtualModel = parsed.data["model"].v,
                   !.data = applySamplingParams(parsed.data,
                                resolveModel(parsed.data["model"].v).params,
                                enforceSamplingParams)])
    /\ UNCHANGED <<enforceSamplingParams, modifiedRequests, singleVars>>

\* run h from the override of the model name to httpCli.Do
ConcRewrite(h) ==
    LET kw == setEnableThinking(overrideModel(handlers[h].data), handlers[h].think) IN
    /\ handlers[h].pc = "resolved"
    /\ IF ~kw.ok
       THEN /\ handlers' = ConcError(h, handlers[h].request, StatusBadRequest)
            /\ UNCHANGED modifiedRequests
       ELSE /\ handlers' = storeLocals(handlers, h,
                              [handlers[h] EXCEPT !.pc = "sent",
                                                  !.out = Marshal(kw.data)])
            /\ modifiedRequests' = Add(modifiedRequests, 1)
    /\ UNCHANGED <<enforceSamplingParams, singleVars>>

\* run h: httpCli.Do returned an error
ConcDoFails(h, err) ==
    /\ handlers[h].pc = "sent"
    /\ handlers' = ConcError(h, handlers[h].request, doErrorStatus(err))
    /\ UNCHANGED <<enforceSamplingParams, modifiedRequests, singleVars>>

\* run h: the backend answered, the buffered path wrote the response
ConcReply(h, responseBody) ==
    /\ handlers[h].pc = "sent"
    /\ ~handlers[h].stream
    /\ handlers' = storeLocals(handlers, h,
                      [handlers[h] EXCEPT
                         !.pc = "done",
                         !.client = bufferedReply(200, responseBody, handlers[h].think,
                                                  handlers[h].stream,
                                                  handlers[h].virtualModel)])
    /\ UNCHANGED <<enforceSamplingParams, modifiedRequests, singleVars>>

NextConc ==
    \/ \E h \in Handlers, req \in ConcRequests : ConcResolve(h, req)
    \/ \E h \in Handlers : ConcRewrite(h)
    \/ \E h \in Handlers, err \in DoErrors : ConcDoFails(h, err)
    \/ \E h \in Handlers, responseBody \in ConcBodies : ConcReply(h, responseBody)

SpecConc == InitConc /\ [][NextConc]_vars

----------------------------------------------------------------------------
(* The models handler: GET /v1/models *)

\* the virtual model names, in the order of the list
virtualModels == <<thinkingGeneral, thinkingCoding, instructGeneral, instructReasoning>>

\* mutant of findServed: the first entry with a string id is taken
RECURSIVE Mut_findServed_AnyId(_)
Mut_findServed_AnyId(data) ==
    IF data = <<>> THEN [found |-> FALSE, baseModelMap |-> EmptyMap]
    ELSE IF Head(data).t # "obj" THEN Mut_findServed_AnyId(Tail(data))
    ELSE IF ~IsType(Head(data).v, "id", "str") THEN Mut_findServed_AnyId(Tail(data))
    ELSE [found |-> TRUE, baseModelMap |-> Head(data).v]

\* the loop over data: entries that are not objects or have no string id
\* are skipped, the first entry whose id is servedModel is taken
RECURSIVE findServed(_)
findServed(data) ==
    IF data = <<>> THEN [found |-> FALSE, baseModelMap |-> EmptyMap]
    ELSE IF Head(data).t # "obj" THEN findServed(Tail(data))
    ELSE IF ~IsType(Head(data).v, "id", "str") THEN findServed(Tail(data))
    ELSE IF Head(data).v["id"].v = servedModel
    THEN [found |-> TRUE, baseModelMap |-> Head(data).v]
    ELSE findServed(Tail(data))

\* the loop over virtualModels: a clone of baseModelMap for each name, its
\* id set to the name
enrichedData(baseModelMap) ==
    [i \in 1..Len(virtualModels) |-> JObj(Put(baseModelMap, "id", JStr(virtualModels[i])))]

\* the models handler once io.ReadAll returned body
modelsReply(statusCode, body) ==
    LET modelsResp == Unmarshal(body) IN
    IF modelsResp.err THEN httpError(StatusInternalServerError)
    ELSE IF ~IsType(modelsResp.data, "data", "arr")
    THEN [status |-> statusCode, body |-> body, aborted |-> FALSE]
    ELSE IF Len(modelsResp.data["data"].v) = 0
    THEN [status |-> statusCode, body |-> body, aborted |-> FALSE]
    ELSE LET served == findServed(modelsResp.data["data"].v) IN
    IF ~served.found THEN httpError(StatusBadGateway)
    ELSE [status |-> statusCode,
          body |-> Marshal(Put(modelsResp.data, "data",
                               JArr(enrichedData(served.baseModelMap)))),
          aborted |-> FALSE]

\* entries of a model list: the served model, the served model once more
\* with another owner, another model, an entry whose id is not a string, an
\* entry that is not an object
ModelEntries ==
    {JObj([id |-> JStr(servedModel), object |-> JStr("model"),
           created |-> JNum(1700000000), owned_by |-> JStr("vllm"),
           max_model_len |-> JNum(32768)]),
     JObj([id |-> JStr(servedModel), object |-> JStr("model"),
           owned_by |-> JStr("other")]),
     JObj([id |-> JStr("other/model"), object |-> JStr("model"),
           owned_by |-> JStr("vllm")]),
     JObj([id |-> JNum(7), object |-> JStr("model")]),
     JStr(servedModel)}

RECURSIVE ModelLists(_)
ModelLists(n) ==
    IF n = 0 THEN {<<>>}
    ELSE ModelLists(n - 1) \cup
         {Append(l, e) : l \in {x \in ModelLists(n - 1) : Len(x) = n - 1},
                         e \in ModelEntries}

\* what the backend may answer to GET /v1/models
ModelsObjects ==
    {[object |-> JStr("list"), data |-> JArr(l)] : l \in ModelLists(MaxModels)} \cup
    {[data |-> JArr(l)] : l \in ModelLists(MaxModels)} \cup
    {[object |-> JStr("list")], [object |-> JStr("list"), data |-> JNull],
     [data |-> JStr("x")], [data |-> JObj([id |-> JStr(servedModel)])],
     [error |-> JStr("unavailable")]}

ModelsBodies ==
    {Bytes("backend", Invalid)} \cup
    {Bytes(l, j) : l \in {"backend", "gomarshal"},
                   j \in {JNull, JArr(<<>>), JStr("x")}
                         \cup {JObj(o) : o \in ModelsObjects}}

\* the request to the backend is sent
ModelsSend ==
    /\ pc = "idle"
    /\ backendCalls' = backendCalls + 1
    /\ pc' = "sent"
    /\ UNCHANGED <<enforceSamplingParams, handlers, header, modifiedRequests, request,
                   think, stream, virtualModel, outreq, outResp, doErr, fixedBody,
                   client, streamVars>>

\* httpCli.Do returned an error
ModelsDoFails(err) ==
    /\ pc = "sent"
    /\ doErr' = err
    /\ client' = httpError(StatusBadGateway)
    /\ pc' = "done"
    /\ UNCHANGED <<enforceSamplingParams, handlers, header, modifiedRequests, request,
                   think, stream, virtualModel, outreq, backendCalls, outResp,
                   fixedBody, streamVars>>

\* httpCli.Do returned the backend's status line and headers
ModelsDoReturns(statusCode) ==
    /\ pc = "sent"
    /\ outResp' = [status |-> statusCode, body |-> NoBody, aborted |-> FALSE,
                   header |-> [NoHeader EXCEPT
                                 !["Content-Type"] = <<BackendContentType(statusCode)>>]]
    /\ pc' = "responded"
    /\ UNCHANGED <<enforceSamplingParams, handlers, header, modifiedRequests, request,
                   think, stream, virtualModel, outreq, backendCalls, doErr,
                   fixedBody, client, streamVars>>

\* io.ReadAll failed
ModelsReadAllFails ==
    /\ pc = "responded"
    /\ client' = httpError(StatusInternalServerError)
    /\ bodyClosed' = TRUE
    /\ pc' = "done"
    /\ UNCHANGED <<enforceSamplingParams, handlers, header, modifiedRequests, request,
                   think, stream, virtualModel, outreq, backendCalls, outResp, doErr,
                   fixedBody, pending, received, lastRead, buf, nread, written,
                   clientOpen, streamErr>>

\* io.ReadAll returned body: the rest of the handler
ModelsReply(body) ==
    /\ pc = "responded"
    /\ outResp' = [outResp EXCEPT !.body = body]
    /\ client' = modelsReply(outResp.status, body)
    /\ header' = IF client'.body.layout = "errortext" THEN header
                 ELSE HeaderSet(header, "Content-Type", "application/json")
    /\ bodyClosed' = TRUE
    /\ pc' = "done"
    /\ UNCHANGED <<enforceSamplingParams, handlers, modifiedRequests, request,
                   think, stream, virtualModel, outreq, backendCalls, doErr,
                   fixedBody, pending, received, lastRead, buf, nread, written,
                   clientOpen, streamErr>>

NextModels ==
    \/ ModelsSend
    \/ \E err \in DoErrors : ModelsDoFails(err)
    \/ \E statusCode \in BackendStatuses : ModelsDoReturns(statusCode)
    \/ ModelsReadAllFails
    \/ \E body \in ModelsBodies : ModelsReply(body)

SpecModels == Init /\ [][NextModels]_vars

----------------------------------------------------------------------------
(* Properties *)

\* the body of the request in hand is a JSON object
RequestIsObject == ~request.readErr /\ request.body.json.t = "obj"
RequestData == request.body.json.v
\* the request in hand names one of the four virtual models
RequestIsRegistered ==
    /\ RequestIsObject
    /\ IsType(RequestData, "model", "str")
    /\ RequestData["model"].v \in VirtualModels
\* the request in hand was decoded (an object, or the literal null) and
\* its model is absent, not a string, or not a virtual model name
RequestIsUnregistered ==
    /\ ~request.readErr
    /\ request.body.json.t \in {"obj", "null"}
    /\ ~RequestIsRegistered
\* the thinking flag and the profile of a virtual model, from the tables
ThinkingFlag(name) == name \in {thinkingGeneral, thinkingCoding}
ProfileOf(name) ==
    CASE name = thinkingGeneral -> thinkingGeneralParams
      [] name = thinkingCoding -> thinkingCodingParams
      [] name = instructGeneral -> instructGeneralParams
      [] name = instructReasoning -> instructReasoningParams
\* the body of the i-th request sent to the backend
Outgoing(i) == outreq[i].json.v

\* C1: a request whose model is absent, not a string or not one of the four
\* virtual model names is answered with 400, and nothing is sent to the
\* backend for it.
C1_UnregisteredModelRejected ==
    (request # NoRequest /\ ~RequestIsRegistered) =>
        /\ backendCalls = 0
        /\ outreq = <<>>
        /\ pc = "done"
        /\ RequestIsUnregistered => client.status = StatusBadRequest

W_C1_CaseVariantRejected ==
    /\ pc = "done"
    /\ RequestIsObject
    /\ IsType(RequestData, "model", "str")
    /\ RequestData["model"].v = "Thinking-General"
    /\ client.status = StatusBadRequest
    /\ backendCalls = 0

\* C2: every request sent to the backend has "model" equal to the served
\* model name, whichever virtual model was requested.
C2_OutgoingModelIsServed ==
    \A i \in 1..Len(outreq) :
        /\ outreq[i].json.t = "obj"
        /\ Has(Outgoing(i), "model")
        /\ Outgoing(i)["model"] = JStr(servedModel)

W_C2_InstructReasoningSent ==
    /\ pc = "sent"
    /\ RequestData["model"] = JStr(instructReasoning)
    /\ Len(outreq) = 1
    /\ Outgoing(1)["model"] = JStr(servedModel)

\* C3: in every request sent to the backend chat_template_kwargs is an object
\* whose enable_thinking is the boolean thinking flag of the requested
\* virtual model, whether the client sent no chat_template_kwargs or one with
\* any enable_thinking; the client's other keys are kept.
C3_EnableThinkingSet ==
    pc = "sent" =>
        /\ Len(outreq) = 1
        /\ IsType(Outgoing(1), "chat_template_kwargs", "obj")
        /\ LET kwargs == Outgoing(1)["chat_template_kwargs"].v IN
           /\ Has(kwargs, "enable_thinking")
           /\ kwargs["enable_thinking"] =
                  JBool(ThinkingFlag(RequestData["model"].v))
           /\ Has(RequestData, "chat_template_kwargs") =>
                 \A k \in (DOMAIN RequestData["chat_template_kwargs"].v)
                            \ {"enable_thinking"} :
                     /\ Has(kwargs, k)
                     /\ kwargs[k] = RequestData["chat_template_kwargs"].v[k]

W_C3_ClientValueOverwritten ==
    /\ pc = "sent"
    /\ RequestData["model"] = JStr(instructGeneral)
    /\ IsType(RequestData, "chat_template_kwargs", "obj")
    /\ RequestData["chat_template_kwargs"].v =
           [enable_thinking |-> JBool(TRUE), foo |-> JStr("bar")]
    /\ Outgoing(1)["chat_template_kwargs"].v =
           [enable_thinking |-> JBool(FALSE), foo |-> JStr("bar")]

\* C4: with enforce off a sampling key the client supplied goes out with the
\* client's value and a missing one with the profile default of the resolved
\* virtual model; with enforce on every sampling key goes out with the
\* profile default.
C4_SamplingPolicy ==
    pc = "sent" =>
        \A k \in SamplingKeys :
            /\ Has(Outgoing(1), k)
            /\ Outgoing(1)[k] =
                 IF ~enforceSamplingParams /\ Has(RequestData, k)
                 THEN RequestData[k]
                 ELSE ProfileOf(RequestData["model"].v)[k]

W_C4_ClientTemperatureKept ==
    /\ pc = "sent"
    /\ ~enforceSamplingParams
    /\ RequestData["model"] = JStr(thinkingCoding)
    /\ DOMAIN RequestData \cap SamplingKeys = {"temperature"}
    /\ Outgoing(1)["temperature"] = JNum(42)
    /\ Outgoing(1)["presence_penalty"] = JNum(0)

\* C5: every request sent to the backend has all six sampling keys, under
\* both policies and for every subset of them the client supplied.
C5_AllSamplingKeysPresent ==
    \A i \in 1..Len(outreq) : SamplingKeys \subseteq DOMAIN Outgoing(i)

W_C5_NoKeySupplied ==
    /\ pc = "sent"
    /\ DOMAIN RequestData \cap SamplingKeys = {}
    /\ SamplingKeys \subseteq DOMAIN Outgoing(1)

\* C6: a request body that is not a JSON object is answered with 400 and no
\* backend call is made for it.
C6_MalformedBodyIs400 ==
    (pc = "done" /\ request # NoRequest /\ ~request.readErr
        /\ request.body.json.t # "obj") =>
        /\ client.status = StatusBadRequest
        /\ backendCalls = 0

\* the request in hand names a virtual model and has a chat_template_kwargs
\* that is not an object
BadKwargs(req) ==
    /\ ~req.readErr
    /\ req.body.json.t = "obj"
    /\ IsType(req.body.json.v, "model", "str")
    /\ req.body.json.v["model"].v \in VirtualModels
    /\ Has(req.body.json.v, "chat_template_kwargs")
    /\ req.body.json.v["chat_template_kwargs"].t # "obj"

\* C7: a request for a virtual model whose chat_template_kwargs is present
\* and not an object is answered with 400, without a backend call and
\* without incrementing the modified-request counter.
C7_BadKwargsRejected ==
    [][(pc = "idle" /\ BadKwargs(request')) =>
          /\ pc' = "done"
          /\ client'.status = StatusBadRequest
          /\ backendCalls' = 0
          /\ outreq' = <<>>
          /\ modifiedRequests' = modifiedRequests]_vars

W_C7_NullKwargsRejected ==
    /\ pc = "done"
    /\ BadKwargs(request)
    /\ RequestData["chat_template_kwargs"] = JNull
    /\ client.status = StatusBadRequest

\* the buffered path read a backend body
BodyWasRead == pc = "done" /\ outResp.body # NoBody

\* C8: on the buffered path, when the backend body is a JSON object with a
\* top-level "model" of whatever type, the body the client gets has "model"
\* equal to the requested virtual model name.
C8_ModelRestoredForAnyType ==
    (BodyWasRead /\ outResp.body.json.t = "obj"
        /\ Has(outResp.body.json.v, "model")) =>
        /\ ~client.aborted
        /\ client.body.json.t = "obj"
        /\ Has(client.body.json.v, "model")
        /\ client.body.json.v["model"] = JStr(virtualModel)

\* C9: whatever body the backend sent on the buffered path, the handler runs
\* to completion and answers with the backend's status code and a body.
C9_RectificationNeverFails ==
    BodyWasRead =>
        /\ ~client.aborted
        /\ client.status = outResp.status
        /\ client.body # NoBody

\* C10: a backend body that is not a JSON object reaches the client unchanged
\* byte for byte, with the backend's status code.
C10_NonObjectBodyUnchanged ==
    (BodyWasRead /\ outResp.body.json.t # "obj") =>
        /\ ~client.aborted
        /\ client.status = outResp.status
        /\ client.body = outResp.body

W_C10_NullBodyForwarded ==
    /\ BodyWasRead
    /\ outResp.body = Bytes("backend", JNull)
    /\ outResp.status = 503
    /\ client.body = Bytes("backend", JNull)
    /\ client.status = 503

----------------------------------------------------------------------------
(* Buffered responses: the content repair *)

\* the JSON value is an object whose "choices" is a non-empty array
HasChoices(json) ==
    /\ json.t = "obj"
    /\ IsType(json.v, "choices", "arr")
    /\ Len(json.v["choices"].v) > 0

\* the object of a choice the repair is about: its "message" object, or its
\* "delta" object when it has no "message" object
SelectedKey(choice) ==
    IF choice.t # "obj" THEN "none"
    ELSE IF Has(choice.v, "message") /\ choice.v["message"].t = "obj" THEN "message"
    ELSE IF Has(choice.v, "delta") /\ choice.v["delta"].t = "obj" THEN "delta"
    ELSE "none"

NonEmptyStr(m, k) == Has(m, k) /\ m[k].t = "str" /\ m[k].v # ""
ContentMissing(m) == ~Has(m, "content") \/ m["content"] = JStr("")
HasReasoningText(m) == NonEmptyStr(m, "reasoning_content") \/ NonEmptyStr(m, "reasoning")
\* content is absent or empty next to a non-empty reasoning text
Misplaced(m) == ContentMissing(m) /\ HasReasoningText(m)

\* m2 is m with the reasoning text moved into content
Repaired(m, m2) ==
    m2 = [k \in ((DOMAIN m) \cup {"content"}) \ {"reasoning_content", "reasoning"} |->
            IF k = "content"
            THEN IF NonEmptyStr(m, "reasoning_content")
                 THEN m["reasoning_content"] ELSE m["reasoning"]
            ELSE m[k]]

\* C11: for a non-thinking model on the buffered path, in every choice the
\* message (or else delta) object whose content is absent or empty and whose
\* reasoning_content or reasoning is a non-empty string comes out of the
\* repair with content equal to that text, reasoning_content first, and with
\* neither reasoning_content nor reasoning; one with non-empty content
\* comes out as it went in.
C11_ContentRepaired ==
    (BodyWasRead /\ ~think /\ ~stream /\ HasChoices(outResp.body.json)) =>
        /\ HasChoices(fixedBody.json)
        /\ LET sent == outResp.body.json.v["choices"].v
               got == fixedBody.json.v["choices"].v IN
           /\ Len(got) = Len(sent)
           /\ \A i \in 1..Len(sent) :
                 LET key == SelectedKey(sent[i]) IN
                 key # "none" =>
                    /\ SelectedKey(got[i]) = key
                    /\ Misplaced(sent[i].v[key].v) =>
                          Repaired(sent[i].v[key].v, got[i].v[key].v)
                    /\ NonEmptyStr(sent[i].v[key].v, "content") =>
                          got[i].v[key].v = sent[i].v[key].v

W_C11_ReasoningContentPreferred ==
    /\ BodyWasRead
    /\ ~think
    /\ HasChoices(outResp.body.json)
    /\ outResp.body.json.v["choices"].v[1] =
          JObj([message |-> JObj([content |-> JStr(""),
                                  reasoning_content |-> JStr("a"),
                                  reasoning |-> JStr("b")])])
    /\ fixedBody.json.v["choices"].v[1] =
          JObj([message |-> JObj([content |-> JStr("a")])])

\* the choices of the body the client got, <<>> when there are none
ClientChoices ==
    IF ~client.aborted /\ HasChoices(client.body.json)
    THEN client.body.json.v["choices"].v ELSE <<>>

\* C12 as stated: for a non-thinking model on the buffered path no message
\* and no delta object of any choice of the client's body has an absent or
\* empty content next to a non-empty reasoning text, also in a choice that
\* has both objects.
C12_NoMisplacedTextAnywhere ==
    (BodyWasRead /\ ~think /\ ~stream) =>
        \A i \in 1..Len(ClientChoices) : \A key \in {"message", "delta"} :
            (ClientChoices[i].t = "obj" /\ IsType(ClientChoices[i].v, key, "obj"))
                => ~Misplaced(ClientChoices[i].v[key].v)

\* C12: for a non-thinking model on the buffered path, in no choice of the
\* client's body does the object the repair works on - the message object,
\* or the delta object of a choice without a message object - have an absent
\* or empty content next to a non-empty reasoning text.
C12_NoMisplacedTextInSelected ==
    (BodyWasRead /\ ~think /\ ~stream) =>
        \A i \in 1..Len(ClientChoices) :
            SelectedKey(ClientChoices[i]) # "none" =>
               ~Misplaced(ClientChoices[i].v[SelectedKey(ClientChoices[i])].v)

W_C12_DeltaRepairedWithoutMessageObject ==
    /\ BodyWasRead
    /\ ~think
    /\ HasChoices(outResp.body.json)
    /\ outResp.body.json.v["choices"].v[1] =
          JObj([message |-> JStr("x"),
                delta |-> JObj([content |-> JStr(""), reasoning |-> JStr("r")])])
    /\ Len(ClientChoices) = 1
    /\ ClientChoices[1] =
          JObj([message |-> JStr("x"), delta |-> JObj([content |-> JStr("r")])])

\* C13: for a thinking model on the buffered path the client gets the
\* backend's object with every field but "model" as the backend sent it, and
\* on the streaming path every JSON text the client gets has the choices the
\* backend sent.
C13_NoRepairWhenThinkingOrStream ==
    /\ (BodyWasRead /\ think /\ outResp.body.json.t = "obj") =>
          /\ ~client.aborted
          /\ client.body.json.t = "obj"
          /\ DOMAIN client.body.json.v = DOMAIN outResp.body.json.v
          /\ \A k \in (DOMAIN outResp.body.json.v) \ {"model"} :
                client.body.json.v[k] = outResp.body.json.v[k]
    /\ stream =>
          \A i \in 1..Len(written) : \A j \in 1..Len(written[i]) :
              written[i][j].k = "json" =>
                  /\ written[i][j].body.json.t = "obj"
                  /\ Has(written[i][j].body.json.v, "choices")
                  /\ written[i][j].body.json.v["choices"] =
                        StreamPayload.json.v["choices"]

\* a choice of the backend's body has text for the repair to move
RepairMoves ==
    /\ ~think
    /\ ~stream
    /\ HasChoices(outResp.body.json)
    /\ \E i \in 1..Len(outResp.body.json.v["choices"].v) :
          LET choice == outResp.body.json.v["choices"].v[i] IN
          /\ SelectedKey(choice) # "none"
          /\ HasReasoningText(choice.v[SelectedKey(choice)].v)
          /\ ~NonEmptyStr(choice.v[SelectedKey(choice)].v, "content")

BackendHasModel == outResp.body.json.t = "obj" /\ Has(outResp.body.json.v, "model")

\* C14 as stated: a backend body without a top-level model, or with one that
\* already is the virtual name, and with nothing to repair reaches the client
\* as the bytes the backend sent.
C14_UntouchedBytesReturned ==
    (BodyWasRead /\ ~RepairMoves
        /\ (~BackendHasModel \/ outResp.body.json.v["model"] = JStr(virtualModel))) =>
        /\ ~client.aborted
        /\ client.body = outResp.body

\* C14: the client's body differs from the backend's bytes only if the
\* repair moved text or the backend's object has a top-level model field; a
\* body without a top-level model field and with nothing to repair reaches
\* the client as the bytes the backend sent.
C14_SerializedOnlyWhenRewritten ==
    BodyWasRead =>
        /\ (~client.aborted /\ client.body # outResp.body) =>
               (RepairMoves \/ BackendHasModel)
        /\ (~RepairMoves /\ ~BackendHasModel) =>
               (~client.aborted /\ client.body = outResp.body)

W_C14_BackendBytesKept ==
    /\ BodyWasRead
    /\ ~think
    /\ HasChoices(outResp.body.json)
    /\ ~RepairMoves
    /\ ~BackendHasModel
    /\ outResp.body.layout = "backend"
    /\ client.body = outResp.body

\* C15: a request makes at most one backend call, and when that call fails
\* the client gets 502 for a refused connection and 500 for any other
\* failure.
C15_TransportFailure ==
    /\ backendCalls <= 1
    /\ (pc = "done" /\ doErr # "") =>
          /\ backendCalls = 1
          /\ client.status = (IF doErr = "ECONNREFUSED" THEN 502 ELSE 500)

W_C15_TimeoutIs500 ==
    /\ pc = "done"
    /\ doErr = "timeout"
    /\ backendCalls = 1
    /\ client.status = 500

----------------------------------------------------------------------------
(* Requests: frame and profiles *)

\* the top-level fields transform assigns
RewrittenKeys == {"model", "chat_template_kwargs"} \cup SamplingKeys

\* C19: every top-level field of the request other than model, the sampling
\* keys and chat_template_kwargs goes to the backend with the value the
\* client gave it, and the outgoing body has no field beyond the client's
\* and those.
C19_OtherFieldsUntouched ==
    pc = "sent" =>
        /\ \A k \in (DOMAIN RequestData) \ RewrittenKeys :
              /\ Has(Outgoing(1), k)
              /\ Outgoing(1)[k] = RequestData[k]
        /\ DOMAIN Outgoing(1) \subseteq (DOMAIN RequestData) \cup RewrittenKeys

Tuple6(a, b, c, d, e, f) ==
    [temperature |-> JNum(a), top_p |-> JNum(b), top_k |-> JNum(c),
     min_p |-> JNum(d), presence_penalty |-> JNum(e), repetition_penalty |-> JNum(f)]

\* the profiles in hundredths
DocumentedProfile(name) ==
    CASE name = thinkingGeneral -> Tuple6(100, 95, 2000, 0, 150, 100)
      [] name = thinkingCoding -> Tuple6(60, 95, 2000, 0, 0, 100)
      [] name = instructGeneral -> Tuple6(70, 80, 2000, 0, 150, 100)
      [] name = instructReasoning -> Tuple6(100, 95, 2000, 0, 150, 100)

\* C20: with the fill policy a request that supplies no sampling key goes
\* out with the six values of its virtual model's profile, the same for the
\* first request and after any earlier requests.
C20_FixedProfiles ==
    (pc = "sent" /\ ~enforceSamplingParams
        /\ (DOMAIN RequestData) \cap SamplingKeys = {}) =>
        \A k \in SamplingKeys :
            Outgoing(1)[k] = DocumentedProfile(RequestData["model"].v)[k]

W_C20_SecondRequestSameProfile ==
    /\ pc = "sent"
    /\ ~enforceSamplingParams
    /\ modifiedRequests = 2
    /\ (DOMAIN RequestData) \cap SamplingKeys = {}
    /\ RequestData["model"] = JStr(thinkingCoding)
    /\ Outgoing(1)["temperature"] = JNum(60)
    /\ Outgoing(1)["presence_penalty"] = JNum(0)

----------------------------------------------------------------------------
(* Streamed responses *)

\* position of the first blank line of b, 0 when it has none
BlankAt(b) ==
    LET hits == {i \in 1..(Len(b) - 1) : b[i] = NL /\ b[i + 1] = NL} IN
    IF hits = {} THEN 0 ELSE CHOOSE i \in hits : \A j \in hits : i <= j

\* the blank-line-terminated frames of b and what follows the last of them
RECURSIVE FramesOf(_)
FramesOf(b) ==
    IF BlankAt(b) = 0 THEN [frames |-> <<>>, rest |-> b]
    ELSE LET r == FramesOf(SubSeq(b, BlankAt(b) + 2, Len(b))) IN
         [frames |-> <<SubSeq(b, 1, BlankAt(b) + 1)>> \o r.frames, rest |-> r.rest]

RECURSIVE Flatten(_)
Flatten(ws) == IF ws = <<>> THEN <<>> ELSE Head(ws) \o Flatten(Tail(ws))

NotSpace(tok) == tok # NL /\ tok # SP
\* what a frame carries after "data: ", white space aside
PayloadOf(f) == SelectSeq(Tail(f), NotSpace)

\* a frame of at most 8192 bytes that starts with "data: " and carries a
\* JSON object with a string "model"
IsModelFrame(f) ==
    /\ Head(f) = DataPrefix
    /\ ByteLen(f) <= 8192
    /\ Len(PayloadOf(f)) = 1
    /\ PayloadOf(f)[1].k = "json"
    /\ PayloadOf(f)[1].body.json.t = "obj"
    /\ Has(PayloadOf(f)[1].body.json.v, "model")
    /\ PayloadOf(f)[1].body.json.v["model"].t = "str"

IsDoneOrEmptyFrame(f) ==
    Head(f) = DataPrefix /\ PayloadOf(f) \in {<<>>, <<Done>>}

\* "data: " + the JSON of the frame with "model" set to name + blank line
Renamed(f, name) ==
    LET o == PayloadOf(f)[1].body.json.v IN
    <<DataPrefix,
      Json(Bytes("gomarshal",
                 JObj([k \in DOMAIN o |-> IF k = "model" THEN JStr(name) ELSE o[k]]))),
      NL, NL>>

\* what the client is to get for a sequence of frames
RECURSIVE DeliveredFrames(_, _)
DeliveredFrames(fs, name) ==
    IF fs = <<>> THEN <<>>
    ELSE (IF IsModelFrame(Head(fs)) THEN Renamed(Head(fs), name) ELSE Head(fs))
         \o DeliveredFrames(Tail(fs), name)

\* the backend's stream ended cleanly and every write to the client went well
StreamCompleted ==
    pc = "done" /\ stream /\ lastRead = "EOF" /\ streamErr = "nil" /\ clientOpen

\* C16: when the backend's stream is made of frames that start with "data: "
\* and are either model frames of at most 8192 bytes, [DONE] frames or
\* frames without payload, the client gets the model frames with the virtual
\* name and the others byte for byte, however the reads split the stream.
C16_StreamedFramesRewritten ==
    (StreamCompleted
        /\ FramesOf(received).rest = <<>>
        /\ \A i \in 1..Len(FramesOf(received).frames) :
              \/ IsModelFrame(FramesOf(received).frames[i])
              \/ IsDoneOrEmptyFrame(FramesOf(received).frames[i])) =>
        Flatten(written) = DeliveredFrames(FramesOf(received).frames, virtualModel)

\* C17: after a Read that failed with an error other than end of stream the
\* bytes of the buffer, those of the failing Read included, have been
\* written to the client and streamResponse has returned no error.
C17_ResidualFlushedOnReadError ==
    (pc = "done" /\ stream /\ lastRead = "err" /\ clientOpen) =>
        /\ streamErr = "nil"
        /\ buf # <<>> => (written # <<>> /\ written[Len(written)] = buf)

\* the bytes the Read of this step returned
NewBytes == SubSeq(received', Len(received) + 1, Len(received'))

\* C18: once the client is gone streamResponse eventually returns and the
\* backend body is closed, with no Read after that; and a Read that
\* completes an event after the client went away is the last one, its write
\* fails and streamResponse returns at once.
C18_CancellationEndsStream ==
    /\ (pc = "streaming" /\ ~clientOpen) ~> (pc = "done" /\ bodyClosed)
    /\ [][(pc = "streaming" /\ ~clientOpen /\ lastRead' = "nil"
             /\ BlankAt(buf \o NewBytes) # 0) =>
          (pc' = "done" /\ bodyClosed' /\ streamErr' = "werr")]_vars
    /\ [][pc = "done" => UNCHANGED <<pc, bodyClosed, received>>]_vars

W_C18_WriteFailureStopsReading ==
    /\ pc = "done"
    /\ ~clientOpen
    /\ streamErr = "werr"
    /\ bodyClosed
    /\ pending # <<>>

\* every frame of b, and what follows the last, is at most 8192 bytes long
ShortFrames(b) ==
    /\ \A i \in 1..Len(FramesOf(b).frames) : ByteLen(FramesOf(b).frames[i]) <= 8192
    /\ ByteLen(FramesOf(b).rest) <= 8192

\* C22: for a backend stream whose events are at most 8192 bytes long the
\* bytes the client got at the end are those of reframing the whole body at
\* once - each model frame renamed, everything else as it came - whatever
\* the splitting into reads, the last bytes coming with the end of stream
\* included.
C22_ChunkingIndependent ==
    (StreamCompleted /\ ShortFrames(received)) =>
        Flatten(written) =
            DeliveredFrames(FramesOf(received).frames, virtualModel)
                \o FramesOf(received).rest

\* C23: the buffer holds at most 8192 bytes whenever a Read is issued and
\* never more than 8192 + 4096; a Read that leaves more than 8192 bytes
\* without a complete event has them written to the client as they are, as
\* the last write, and empties the buffer.
C23_BufferBounded ==
    /\ [](pc = "streaming" => ByteLen(buf) <= 8192)
    /\ [](ByteLen(buf) <= 8192 + 4096)
    /\ [][(pc = "streaming" /\ clientOpen /\ lastRead' = "nil"
             /\ ByteLen(FramesOf(buf \o NewBytes).rest) > 8192) =>
          /\ buf' = <<>>
          /\ written' # <<>>
          /\ written'[Len(written')] = FramesOf(buf \o NewBytes).rest]_vars

W_C23_WatermarkFlush ==
    /\ pc = "streaming"
    /\ buf = <<>>
    /\ written # <<>>
    /\ ByteLen(written[Len(written)]) > 8192

\* one write per frame, each as the client is to get it
FrameWrites(fs, name) ==
    [i \in 1..Len(fs) |->
        IF IsModelFrame(fs[i]) THEN Renamed(fs[i], name) ELSE fs[i]]

\* C24: between two Reads the buffer holds no complete event, and the writes
\* made so far are one per complete event received, in the order received,
\* followed at the end of the stream by one write of what was left.
C24_OneWritePerEvent ==
    (stream /\ clientOpen /\ pc \in {"streaming", "done"} /\ ShortFrames(received)) =>
        /\ pc = "streaming" => BlankAt(buf) = 0
        /\ written =
             FrameWrites(FramesOf(received).frames, virtualModel)
                \o (IF pc = "done" /\ lastRead = "EOF" /\ FramesOf(received).rest # <<>>
                    THEN <<FramesOf(received).rest>> ELSE <<>>)

\* C25: the Read that returns end of stream is the last one; what the buffer
\* then holds is written once, as it is, streamResponse returns without an
\* error, and with a backend that goes on to the end of its stream
\* streamResponse terminates.
C25_CleanEndOfStream ==
    /\ [][(pc = "streaming" /\ clientOpen /\ lastRead' = "EOF") =>
          /\ pc' = "done"
          /\ streamErr' = "nil"
          /\ bodyClosed'
          /\ written' = written \o (IF buf \o NewBytes = <<>> THEN <<>>
                                    ELSE <<buf \o NewBytes>>)]_vars
    /\ [][pc = "done" => UNCHANGED <<received, written>>]_vars
    /\ <>(pc = "done")

W_C25_ResidualWrittenAtEnd ==
    /\ pc = "done"
    /\ lastRead = "EOF"
    /\ streamErr = "nil"
    /\ clientOpen
    /\ received = DoneFrame \o <<DataPrefix, Json(StreamPayload)>>
    /\ written = <<DoneFrame, <<DataPrefix, Json(StreamPayload)>>>>

\* a frame that starts with "data: " and carries a JSON object with a
\* string "model"
IsRewritable(f) ==
    /\ Head(f) = DataPrefix
    /\ Len(PayloadOf(f)) = 1
    /\ PayloadOf(f)[1].k = "json"
    /\ PayloadOf(f)[1].body.json.t = "obj"
    /\ Has(PayloadOf(f)[1].body.json.v, "model")
    /\ PayloadOf(f)[1].body.json.v["model"].t = "str"

\* the frames fs from the i-th on, those whose index is in S renamed
RECURSIVE ReplaceFrames(_, _, _, _)
ReplaceFrames(fs, i, S, name) ==
    IF i > Len(fs) THEN <<>>
    ELSE (IF i \in S THEN Renamed(fs[i], name) ELSE fs[i])
         \o ReplaceFrames(fs, i + 1, S, name)

\* out is the byte stream b with some of its rewritable frames renamed
Conserves(out, b, name) ==
    \E S \in SUBSET {i \in 1..Len(FramesOf(b).frames) : IsRewritable(FramesOf(b).frames[i])} :
        out = ReplaceFrames(FramesOf(b).frames, 1, S, name) \o FramesOf(b).rest

\* C29: as long as the client takes the writes, what has been written to
\* it, with what the buffer still holds while the loop goes on, is the byte
\* stream read from the backend with nothing changed but renamed data
\* frames: nothing lost, nothing written twice.
C29_BytesConserved ==
    (stream /\ clientOpen /\ pc \in {"streaming", "done"}) =>
        Conserves(Flatten(written) \o (IF pc = "streaming" THEN buf ELSE <<>>),
                  received, virtualModel)

\* C26: the flag that selects the response path is set at dispatch to
\* whether the request's "stream" is the boolean true, is not changed
\* afterwards, and once the backend has answered - whatever its status - the
\* handler streams if the flag is set and otherwise reads the whole body
\* and answers from the buffered path.
C26_PathByStreamFlag ==
    [][/\ (pc = "idle" /\ pc' = "sent") =>
            stream' = (/\ IsType(request'.body.json.v, "stream", "bool")
                       /\ request'.body.json.v["stream"].v)
       /\ (pc \in {"sent", "responded", "streaming"}) => stream' = stream
       /\ (pc = "responded" /\ pc' # "responded") =>
            IF stream
            THEN /\ pc' = "streaming"
                 /\ client' = [status |-> outResp.status, body |-> NoBody,
                               aborted |-> FALSE]
                 /\ fixedBody' = NoBody
            ELSE /\ pc' = "done"
                 /\ bodyClosed'
                 /\ pending' = <<>>
                 /\ written' = <<>>]_vars

W_C26_StreamedWhateverTheStatus ==
    /\ pc = "streaming"
    /\ stream
    /\ outResp.status = 503
    /\ client.status = 503

\* C27: when the buffered path has written its body, the client's header
\* holds exactly one Content-Length, the number of bytes of that body, also
\* when the backend declared another length.
C27_SingleContentLength ==
    (pc = "done" /\ ~stream /\ fixedBody # NoBody /\ ~client.aborted) =>
        header["Content-Length"] = <<Itoa(len(client.body))>>

W_C27_BackendLengthReplaced ==
    /\ pc = "done"
    /\ ~stream
    /\ fixedBody # NoBody
    /\ ~client.aborted
    /\ outResp.header["Content-Length"] = <<Itoa(len(outResp.body))>>
    /\ len(outResp.body) # len(client.body)
    /\ Len(header["Content-Length"]) = 1

\* the model name the request of run h asks for
OwnModel(h) == handlers[h].request.body.json.v["model"].v

\* run h has sent its request to the backend
Dispatched(h) == handlers[h].pc \in {"sent", "done"} /\ handlers[h].out # NoBody

\* C21: whatever the runs that go on at the same time, the request a run
\* sends has the enable_thinking and the sampling defaults of the virtual
\* model its own request names - it is the request the run would send alone -
\* and the model of the response it writes is that name.
C21_RequestIsolation ==
    \A h \in Handlers :
        /\ Dispatched(h) =>
            /\ handlers[h].out.json.v["chat_template_kwargs"].v["enable_thinking"]
                 = JBool(ThinkingFlag(OwnModel(h)))
            /\ \A k \in SamplingKeys :
                  (enforceSamplingParams \/ ~Has(handlers[h].request.body.json.v, k)) =>
                      handlers[h].out.json.v[k] = ProfileOf(OwnModel(h))[k]
            /\ handlers[h].out =
                 rewriteRequest(handlers[h].request, enforceSamplingParams).out
        /\ (/\ Dispatched(h)
            /\ handlers[h].pc = "done"
            /\ handlers[h].client.body.json.t = "obj"
            /\ Has(handlers[h].client.body.json.v, "model")) =>
                handlers[h].client.body.json.v["model"] = JStr(OwnModel(h))

W_C21_TwoModelsInFlight ==
    /\ handlers[1].pc = "done"
    /\ handlers[2].pc = "done"
    /\ OwnModel(1) = thinkingGeneral
    /\ OwnModel(2) = instructGeneral
    /\ handlers[1].client.body.json.t = "obj"
    /\ handlers[2].client.body.json.t = "obj"
    /\ handlers[1].client.body.json.v["model"] = JStr(thinkingGeneral)
    /\ handlers[2].client.body.json.v["model"] = JStr(instructGeneral)

\* C28: the counter is the number of runs that have sent their request,
\* those whose backend call failed included and the rejected ones not; a
\* step adds one to it exactly when a run goes on to the backend call and
\* otherwise leaves it as it is.
C28_CounterCountsDispatches ==
    /\ [](modifiedRequests = Cardinality({h \in Handlers : Dispatched(h)}))
    /\ [][/\ modifiedRequests' >= modifiedRequests
          /\ (\E h \in Handlers : handlers[h].pc = "resolved" /\ handlers'[h].pc = "sent")
               => modifiedRequests' = modifiedRequests + 1
          /\ ~(\E h \in Handlers : handlers[h].pc = "resolved" /\ handlers'[h].pc = "sent")
               => modifiedRequests' = modifiedRequests]_vars

W_C28_FailedCallCounted ==
    /\ modifiedRequests = 2
    /\ handlers[1].pc = "done"
    /\ handlers[1].client.status = StatusBadGateway
    /\ handlers[2].pc = "sent"

\* the backend's body is a JSON object or null, as json.Unmarshal takes it
ModelsParsed == pc = "done" /\ outResp.body.json.t \in {"obj", "null"}

\* the model list of the backend's body, <<>> when it has none
BackendList ==
    IF outResp.body.json.t = "obj" /\ IsType(outResp.body.json.v, "data", "arr")
    THEN outResp.body.json.v["data"].v ELSE <<>>

\* the i-th entry of the backend's list is one of the served model
IsServedEntry(i) ==
    /\ BackendList[i].t = "obj"
    /\ IsType(BackendList[i].v, "id", "str")
    /\ BackendList[i].v["id"].v = servedModel

ServedIndexes == {i \in 1..Len(BackendList) : IsServedEntry(i)}

\* the first entry of the served model
FirstServed == BackendList[CHOOSE i \in ServedIndexes : \A j \in ServedIndexes : i <= j].v

\* C30: for a backend body that is a JSON object (or null): with an entry
\* of the served model in its list the client gets, with the backend's
\* status, the same object with a list of four entries, the first entry of
\* the served model with its id replaced by thinking-general,
\* thinking-coding, instruct-general and instruct-reasoning in that order;
\* with a list that is not empty and has no such entry it gets 502; with no
\* list or an empty one it gets the backend's status and body as they are.
C30_ModelsListing ==
    ModelsParsed =>
        /\ ServedIndexes # {} =>
            /\ client.status = outResp.status
            /\ client.body.json.t = "obj"
            /\ DOMAIN client.body.json.v = DOMAIN outResp.body.json.v
            /\ \A k \in DOMAIN client.body.json.v \ {"data"} :
                  client.body.json.v[k] = outResp.body.json.v[k]
            /\ client.body.json.v["data"].t = "arr"
            /\ Len(client.body.json.v["data"].v) = 4
            /\ \A i \in 1..4 :
                  client.body.json.v["data"].v[i] =
                     JObj([FirstServed EXCEPT !["id"] =
                             JStr(<<thinkingGeneral, thinkingCoding,
                                    instructGeneral, instructReasoning>>[i])])
        /\ (BackendList # <<>> /\ ServedIndexes = {}) =>
            /\ client.status = StatusBadGateway
            /\ client.body.layout = "errortext"
        /\ BackendList = <<>> =>
            /\ client.status = outResp.status
            /\ client.body = outResp.body

W_C30_ServedEntryAmongOthers ==
    /\ ModelsParsed
    /\ outResp.status = 200
    /\ Len(BackendList) = 2
    /\ ServedIndexes = {2}
    /\ BackendList[1].t = "obj"
    /\ client.body.json.t = "obj"
    /\ Len(client.body.json.v["data"].v) = 4
    /\ client.body.json.v["data"].v[4].v["id"] = JStr(instructReasoning)
    /\ client.body.json.v["data"].v[4].v["owned_by"] = JStr("vllm")

====
